---- MODULE Spec2Model ----
(***************************************************************************)
(* A model of proceed's pipeline runner (src/proceed/docker_runner.py):    *)
(* run_pipeline iterates the amended steps, run_step decides skip / run /  *)
(* fail for one step, run_container is the bounded retry loop around the   *)
(* container engine.  The container engine, the file matcher and the file  *)
(* system holding the step logs are the environment: each call to them is  *)
(* one action whose outcome (a value or a raised exception) is chosen      *)
(* nondeterministically.                                                   *)
(*                                                                         *)
(* Optional values (Python None) are sets of at most one element: {} is    *)
(* None, {v} is the value v.                                               *)
(***************************************************************************)
EXTENDS Integers, Sequences, FiniteSets, TLC

\* ------------------------------------------------------------------ bounds
\* Longest pipeline (number of amended steps) explored.
MaxSteps == 3
\* Most log chunks one container streams in one attempt.
MaxChunks == 1

\* ------------------------------------------------------- program constants
\* run_container's default attempt budget (max_attempts: int = 3).
DefaultMaxAttempts == 3

\* ------------------------------------------------------------------- names
\* Step names are sequences of characters, so that the log stem
\* (name.replace(" ", "_")) is computed and not assumed.
NameAB == <<"a", " ", "b">>
NameA_B == <<"a", "_", "b">>
NameC == <<"c">>
Names == {NameAB, NameA_B, NameC}

\* The name of the amended step at each position of the pipelines explored.
NamePool == <<NameAB, NameC, NameA_B>>
StepNameAt(k) == NamePool[((k - 1) % Len(NamePool)) + 1]

\* log_stem = step.name.replace(" ", "_")
LogStem(name) == [k \in DOMAIN name |-> IF name[k] = " " THEN "_" ELSE name[k]]
\* log_path = Path(execution_path, f"{log_stem}.log")
LogPath(name) == LogStem(name) \o <<".log">>
LogPaths == {LogPath(n) : n \in Names}

\* ------------------------------------------------------------- environment
\* Exception classes as run_container's except clauses tell them apart:
\*   client : APIError with is_client_error()
\*   server : any other APIError
\*   docker : a DockerException that is no APIError
\*   os     : any other Exception (OSError, UnicodeDecodeError, ...)
ErrorKinds == {"client", "server", "docker", "os"}
\* Exit status codes a container may end with.
ExitCodes == {0, 1}
\* What match_patterns_in_dirs may return for each pattern group.
NoFiles == {}
MatchResults(group) ==
    CASE group = "done" -> {NoFiles, {"done.txt"}}
      [] group = "in" -> {{"in.txt"}}
      [] group = "out" -> {{"out.txt"}}
      [] group = "summary" -> {{"summary.txt"}}

\* Lines of a log file.
OldLine == [kind |-> "old", n |-> 0]
ChunkLine == [kind |-> "chunk", n |-> 0]
MarkerLine(n) == [kind |-> "marker", n |-> n]
ErrorLine == [kind |-> "error", n |-> 0]

\* -------------------------------------------------------------- data model
\* Timing(start) and Timing(start, finish, duration): which fields are set.
TimingStartOnly == [start |-> TRUE, finish |-> FALSE, duration |-> FALSE]
TimingComplete == [start |-> TRUE, finish |-> TRUE, duration |-> TRUE]

\* StepResult with the dataclass defaults for what is not given.
StepResult(name, image_id, exit_code, log_file, timing, fdone, fin, fout, fsum, skipped) ==
    [name |-> name, image_id |-> image_id, exit_code |-> exit_code,
     log_file |-> log_file, timing |-> timing,
     files_done |-> fdone, files_in |-> fin, files_out |-> fout,
     files_summary |-> fsum, skipped |-> skipped]

\* Python truthiness of an optional int: None and 0 are falsy.
Truthy(code) == code # {} /\ code # {0}

\* ------------------------------------------------- model.py: data and inputs
\* Strings are sequences of characters.  A mapping (dict) is a sequence of
\* <<key, value>> pairs with distinct keys, in insertion order.
\* Longest template string explored.
MaxLen == 4
\* Most entries of a declared or runtime args mapping explored.
MaxArgs == 2

Strings(chars, n) == UNION {[1..k -> chars] : k \in 0..n}
\* The template strings explored: every string of dollar signs, braces and
\* the letter a, so "$a", "${a}", "$$a", "$aa", "$", "${a" ... are among them.
TemplateChars == {"$", "a", "{", "}"}
Templates == Strings(TemplateChars, MaxLen)

\* string.Template.idpattern, (?a:[_a-z][_a-z0-9]*): the characters that may
\* start and continue a placeholder name, among the characters explored.
IdStart == {"a", "b", "c", "_"}
IdChars == IdStart \cup {"1", "9"}

\* dict: keys(), "k in d", d[k], d[k] = v, {**d, **e} and ==.
Keys(d) == [k \in DOMAIN d |-> d[k][1]]
HasKey(d, key) == \E k \in DOMAIN d : d[k][1] = key
GetItem(d, key) == d[CHOOSE k \in DOMAIN d : d[k][1] = key][2]
SetItem(d, key, val) ==
    IF HasKey(d, key)
      THEN [k \in DOMAIN d |-> IF d[k][1] = key THEN <<key, val>> ELSE d[k]]
      ELSE Append(d, <<key, val>>)
\* Mutant of Update: the entries of d win ({**e, **d} read as d.setdefault).
Update_KeepOld(d, e) == d \o SelectSeq(e, LAMBDA x : ~HasKey(d, x[1]))

RECURSIVE Update(_, _)
Update(d, e) == IF e = <<>> THEN d ELSE Update(SetItem(d, e[1][1], e[1][2]), Tail(e))
DictEq(d, e) == {d[k] : k \in DOMAIN d} = {e[k] : k \in DOMAIN e}
Dicts(keys, vals, n) ==
    {d \in Strings(keys \X vals, n) :
        \A x, y \in DOMAIN d : x # y => d[x][1] # d[y][1]}

\* Python truthiness of an optional str, a list and an optional bool.
TruthyStr(x) == x # {} /\ x # {<<>>}
TruthyList(x) == x # <<>>
TruthyBool(x) == x = {TRUE}

\* Step(...) with the dataclass defaults.  description, working_dir,
\* network_mode and mac_address are optional strings handled as image is;
\* match_done, match_in, match_out and match_summary are lists of strings
\* handled as command is.
DefaultStep ==
    [name |-> {}, image |-> {}, command |-> <<>>, volumes |-> <<>>,
     environment |-> <<>>, gpus |-> {}, user |-> {}]
NamedStep(name) == [DefaultStep EXCEPT !.name = {name}]
\* Step.__eq__ (dataclass): field by field, mappings compared as dicts.
StepEq(s, t) ==
    /\ s.name = t.name /\ s.image = t.image /\ s.command = t.command
    /\ DictEq(s.volumes, t.volumes) /\ DictEq(s.environment, t.environment)
    /\ s.gpus = t.gpus /\ s.user = t.user

\* Pipeline(...): version and description are carried along unread.
Pipeline(args, prototype, steps) ==
    [version |-> "version", description |-> {}, args |-> args,
     prototype |-> prototype, steps |-> steps]

\* ---------------------------------------------------- model.py: apply_args
RECURSIVE IdEnd(_, _)
\* The position after the longest run of name characters from position p.
IdEnd(s, p) == IF p <= Len(s) /\ s[p] \in IdChars THEN IdEnd(s, p + 1) ELSE p

RECURSIVE Substitute(_, _, _)
\* Template(x).safe_substitute(args), scanning x from position p:
\*   $$        the escape, replaced by one $
\*   $name     replaced by args[name], left as it is when args has no such key
\*   ${name}   the same
\*   any other $ is left as it is
Substitute(s, p, a) ==
    IF p > Len(s) THEN <<>>
    ELSE IF s[p] # "$" THEN <<s[p]>> \o Substitute(s, p + 1, a)
    ELSE IF p < Len(s) /\ s[p + 1] = "$" THEN <<"$">> \o Substitute(s, p + 2, a)
    ELSE IF p < Len(s) /\ s[p + 1] \in IdStart
      THEN LET e == IdEnd(s, p + 2)
               named == SubSeq(s, p + 1, e - 1)
           IN  (IF HasKey(a, named) THEN GetItem(a, named) ELSE SubSeq(s, p, e - 1))
                   \o Substitute(s, e, a)
    ELSE IF /\ p + 1 < Len(s)
            /\ s[p + 1] = "{"
            /\ s[p + 2] \in IdStart
            /\ IdEnd(s, p + 3) <= Len(s)
            /\ s[IdEnd(s, p + 3)] = "}"
      THEN LET e == IdEnd(s, p + 3)
               braced == SubSeq(s, p + 2, e - 1)
           IN  (IF HasKey(a, braced) THEN GetItem(a, braced) ELSE SubSeq(s, p, e))
                   \o Substitute(s, e + 1, a)
    ELSE <<"$">> \o Substitute(s, p + 1, a)

safe_substitute(s, a) == Substitute(s, 1, a)

\* apply_args by the type of x: an optional str (None is returned as it is) ...
apply_args_str(x, a) == {safe_substitute(s, a) : s \in x}
\* ... a list of str ...
apply_args_list(x, a) == [k \in DOMAIN x |-> safe_substitute(x[k], a)]
RECURSIVE apply_args_dict(_, _)
\* ... a dict of str to str: {apply_args(k, args): apply_args(v, args) ...}
apply_args_dict(x, a) ==
    IF x = <<>> THEN <<>>
    ELSE LET last == x[Len(x)]
         IN  SetItem(apply_args_dict(SubSeq(x, 1, Len(x) - 1), a),
                     safe_substitute(last[1], a), safe_substitute(last[2], a))
\* ... and anything else (a bool, an int): returned as it is.
apply_args_other(x, a) == x

\* Step._with_args_applied
Step_with_args_applied(s, a) ==
    [name |-> apply_args_str(s.name, a),
     image |-> apply_args_str(s.image, a),
     command |-> apply_args_list(s.command, a),
     volumes |-> apply_args_dict(s.volumes, a),
     environment |-> apply_args_dict(s.environment, a),
     gpus |-> apply_args_other(s.gpus, a),
     user |-> apply_args_other(s.user, a)]

\* Step._with_prototype_applied: prototype is {} (None) or {a Step}.
Step_with_prototype_applied(s, prototype) ==
    IF prototype = {} THEN s
    ELSE LET t == CHOOSE q \in prototype : TRUE
         IN  [name |-> IF TruthyStr(s.name) THEN s.name ELSE t.name,
              image |-> IF TruthyStr(s.image) THEN s.image ELSE t.image,
              command |-> IF TruthyList(s.command) THEN s.command ELSE t.command,
              volumes |-> Update(t.volumes, s.volumes),
              environment |-> Update(t.environment, s.environment),
              gpus |-> IF TruthyBool(s.gpus) THEN s.gpus ELSE t.gpus,
              user |-> IF Truthy(s.user) THEN s.user ELSE t.user]

\* Mutant of combine_args: the runtime args update the declared ones
\* (accepted_args = {**self.args, **args}), new keys included.
combine_args_Update(declared, runtime) == Update(declared, runtime)

\* Pipeline._combine_args
combine_args(declared, runtime) ==
    [k \in DOMAIN declared |->
        <<declared[k][1],
          IF HasKey(runtime, declared[k][1])
            THEN GetItem(runtime, declared[k][1])
            ELSE declared[k][2]>>]

\* Mutant of Pipeline_with_args_applied: the prototype is passed on as it is,
\* its templates unresolved (prototype=self.prototype).
Pipeline_with_args_applied_RawPrototype(p, runtime) ==
    [version |-> p.version,
     description |-> p.description,
     args |-> combine_args(p.args, runtime),
     prototype |-> p.prototype,
     steps |-> [k \in DOMAIN p.steps |->
                   Step_with_args_applied(p.steps[k], combine_args(p.args, runtime))]]

\* Mutant of Pipeline_with_args_applied: the prototype and the steps are
\* resolved with the args as given (step._with_args_applied(args)).
Pipeline_with_args_applied_GivenArgs(p, runtime) ==
    [version |-> p.version,
     description |-> p.description,
     args |-> combine_args(p.args, runtime),
     prototype |-> {Step_with_args_applied(t, runtime) : t \in p.prototype},
     steps |-> [k \in DOMAIN p.steps |-> Step_with_args_applied(p.steps[k], runtime)]]

\* Pipeline._with_args_applied
Pipeline_with_args_applied(p, runtime) ==
    LET combined_args == combine_args(p.args, runtime)
    IN  [version |-> p.version,
         description |-> p.description,
         args |-> combined_args,
         prototype |-> {Step_with_args_applied(t, combined_args) : t \in p.prototype},
         steps |-> [k \in DOMAIN p.steps |->
                       Step_with_args_applied(p.steps[k], combined_args)]]

\* Mutant of Self_after_args_applied: the combined args are stored in
\* the pipeline itself (self.args = combined_args).
Self_after_args_applied_InPlace(p, runtime) ==
    [p EXCEPT !.args = combine_args(p.args, runtime)]

\* The pipeline _with_args_applied was called on, after the call: the
\* method fills a new dict, new lists and new Step and Pipeline objects and
\* assigns to no attribute of self or of its steps.
Self_after_args_applied(p, runtime) == p

\* Pipeline._with_prototype_applied
Pipeline_with_prototype_applied(p) ==
    [version |-> p.version,
     description |-> p.description,
     args |-> p.args,
     prototype |-> p.prototype,
     steps |-> [k \in DOMAIN p.steps |->
                   Step_with_prototype_applied(p.steps[k], p.prototype)]]

\* The keys and values of the declared and runtime args explored.
ArgKeys == {<<"a">>, <<"a", "a">>, <<"b">>}
ArgValues == {<<>>, <<"1">>, <<"9">>}
ArgDicts == Dicts(ArgKeys, ArgValues, MaxArgs)
TemplateStep(t) ==
    [NamedStep(NameC) EXCEPT !.image = {t}, !.command = <<t>>,
                             !.volumes = <<<<t, t>>>>]
\* Steps and prototypes that set, leave unset or set to a falsy value each
\* kind of field.
StructSteps ==
    {[name |-> {NameC}, image |-> im, command |-> cmd, volumes |-> vol,
      environment |-> env, gpus |-> g, user |-> u] :
        im \in {{}, {<<>>}, {<<"a">>}},
        cmd \in {<<>>, <<<<"a">>>>},
        vol \in {<<>>, <<<<<<"a">>, <<"a">>>>>>, <<<<<<"c">>, <<"a">>>>>>},
        env \in {<<>>, <<<<<<"a">>, <<"a">>>>>>},
        g \in {{}, {FALSE}, {TRUE}},
        u \in {{}, {0}, {7}}}
StructPrototypes ==
    {{}} \cup
    {{[name |-> {}, image |-> im, command |-> cmd, volumes |-> vol,
       environment |-> env, gpus |-> g, user |-> u]} :
        im \in {{}, {<<"b">>}},
        cmd \in {<<>>, <<<<"b">>>>},
        vol \in {<<>>, <<<<<<"a">>, <<"b">>>>, <<<<"b">>, <<"b">>>>>>},
        env \in {<<>>, <<<<<<"b">>, <<"b">>>>>>},
        g \in {{}, {TRUE}},
        u \in {{}, {1}}}
\* The pipeline whose steps have the given names and nothing else.
PipelineOf(names) == Pipeline(<<>>, {}, [k \in DOMAIN names |-> NamedStep(names[k])])
\* amended = original._with_args_applied(args)._with_prototype_applied()
Amended(p, runtime) == Pipeline_with_prototype_applied(Pipeline_with_args_applied(p, runtime))

VARIABLES
    original,           \* the Pipeline as given to run_pipeline
    args,               \* the runtime args given to run_pipeline
    amended,            \* the Pipeline being amended: {} before, then {p}
    steps,              \* amended.steps: the sequence of step names
    step_names,         \* the name filter: {} (None) or {set of names}
    force_rerun,        \* the force_rerun flag
    max_attempts,       \* run_container's max_attempts parameter
    pc,                 \* position of the run in the code
    i,                  \* index of the step the for loop is at
    step_results,       \* run_pipeline's list of StepResult
    result_steps,       \* history: the step index of each entry of step_results
    logs,               \* the log files: path -> sequence of lines
    containers,         \* containers created by the current step and not removed
    running,            \* those of them whose process has not been seen to end
                        \* (log stream closed or wait() returned)
    step_calls,         \* history: create-and-start invocations of the current step
    step_matches,       \* history: file matcher invocations of the current step
    step_markers,       \* history: retry-marker lines written by the current step
    step_errors,        \* history: one entry per failed attempt of the current
                        \* step, the class of the exception for the last one
                        \* and "retried" for those before it
    files_done,         \* run_step local
    files_in,           \* run_step local
    attempts,           \* run_container local
    retried_exception,  \* run_container local
    container,          \* the container handle: {} or {id}
    chunks,             \* log chunks streamed in the current attempt
    exit_code,          \* the exit code run_container returns / wait() gave
    exception,          \* the exception run_container returns: {} or {e}
    step_result         \* the StepResult run_step returned: {} or {r}

vars == <<original, args, amended, steps, step_names, force_rerun, max_attempts, pc, i, step_results, result_steps,
          logs, containers, running, step_calls, step_matches, step_markers, step_errors,
          files_done, files_in, attempts, retried_exception,
          container, chunks, exit_code, exception, step_result>>

given == <<original, args>>
inputs == <<given, amended, steps, step_names, force_rerun, max_attempts>>
counters == <<step_calls, step_matches, step_markers>>
history == <<counters, step_errors>>
stepLocals == <<files_done, files_in>>
rcLocals == <<attempts, retried_exception, container, chunks, exit_code, exception>>

\* ------------------------------------------------------------ run_pipeline
\* Mutant of Ignored: the membership test lost its "not".
Ignored_Inverted(name) ==
    /\ step_names # {}
    /\ \E f \in step_names : f # {} /\ name \in f

\* step_names and not step.name in step_names: None and the empty list are falsy.
Ignored(name) ==
    /\ step_names # {}
    /\ \E f \in step_names : f # {} /\ name \notin f

\* Mutant of StopsPipeline: only a positive exit code stops the run
\* (if step_result.exit_code > 0), so the -1 sentinel does not.
StopsPipeline_PositiveOnly(r) == \E code \in r.exit_code : code > 0

\* Mutant of StopsPipeline: anything but exit code 0 stops the run
\* (if step_result.exit_code != 0), an unset exit code included.
StopsPipeline_UnsetStops(r) == r.exit_code # {0}

\* if step_result.exit_code: ... break
StopsPipeline(r) == Truthy(r.exit_code)

\* Mutant of ShouldSkip: the force_rerun test is inverted.
ShouldSkip_ForceInverted(fdone) == fdone # NoFiles /\ force_rerun

\* Mutant of ShouldSkip: done files never skip a step.
ShouldSkip_Never(fdone) == FALSE

\* if files_done: if force_rerun: (run anyway) else: return StepResult(skipped=True, ...)
ShouldSkip(fdone) == fdone # NoFiles /\ ~force_rerun

\* The filters explored: None, the empty list, and two lists that between
\* them name and leave out every step; only membership and emptiness of the
\* list are ever read.
FilterLists == {{}, {NameC}, {NameAB, NameA_B}}
Filters == {{}} \cup {{f} : f \in FilterLists}

\* The state of run_pipeline before its loop.
RunNotStarted ==
    /\ i = 1
    /\ step_results = <<>>
    /\ result_steps = <<>>
    /\ logs = [p \in LogPaths |-> <<OldLine>>]
    /\ containers = {}
    /\ running = {}
    /\ step_calls = 0
    /\ step_matches = 0
    /\ step_markers = 0
    /\ step_errors = <<>>
    /\ files_done = NoFiles
    /\ files_in = NoFiles
    /\ attempts = 0
    /\ retried_exception = {}
    /\ container = {}
    /\ chunks = 0
    /\ exit_code = {}
    /\ exception = {}
    /\ step_result = {}

Init ==
    /\ \E n \in 0..MaxSteps : steps = [k \in 1..n |-> StepNameAt(k)]
    /\ step_names \in Filters
    /\ force_rerun \in BOOLEAN
    /\ max_attempts = DefaultMaxAttempts
    /\ original = PipelineOf(steps)
    /\ args = <<>>
    /\ amended = {Amended(original, args)}
    /\ pc = "for"
    /\ RunNotStarted

\* The locals of run_step and run_container outside a call of run_step, and
\* the history of the current step: a call starts with them fresh and they
\* go out of scope when it returns.
FreshStep ==
    /\ files_done' = NoFiles
    /\ files_in' = NoFiles
    /\ attempts' = 0
    /\ retried_exception' = {}
    /\ container' = {}
    /\ chunks' = 0
    /\ exit_code' = {}
    /\ exception' = {}
    /\ step_result' = {}
    /\ containers' = {}
    /\ running' = {}
    /\ step_calls' = 0
    /\ step_matches' = 0
    /\ step_markers' = 0
    /\ step_errors' = <<>>

\* An exception that nothing catches leaves run_step and run_pipeline: their
\* locals go out of scope.
Raise ==
    /\ pc' = "raised"
    /\ FreshStep

\* for step in amended.steps: exhausted; return ExecutionRecord(...)
FinishPipeline ==
    /\ pc = "for"
    /\ i > Len(steps)
    /\ pc' = "returned"
    /\ UNCHANGED <<inputs, i, step_results, result_steps, logs, containers, running,
                   history, stepLocals, rcLocals, step_result>>

\* if step_names and not step.name in step_names: continue
IgnoreStep ==
    /\ pc = "for"
    /\ i <= Len(steps)
    /\ Ignored(steps[i])
    /\ i' = i + 1
    /\ UNCHANGED <<inputs, pc, step_results, result_steps, logs, containers, running,
                   history, stepLocals, rcLocals, step_result>>

\* step_result = run_step(step, log_path, force_rerun, client_kwargs): entry
StartStep ==
    /\ pc = "for"
    /\ i <= Len(steps)
    /\ ~Ignored(steps[i])
    /\ pc' = "match_done"
    /\ UNCHANGED <<inputs, i, step_results, result_steps, logs, containers, running,
                   history, stepLocals, rcLocals, step_result>>

\* step_results.append(step_result); if step_result.exit_code: break
AppendResult ==
    /\ pc = "append"
    /\ \E r \in step_result :
        /\ step_results' = Append(step_results, r)
        /\ result_steps' = Append(result_steps, i)
        /\ IF StopsPipeline(r)
             THEN pc' = "returned" /\ i' = i
             ELSE pc' = "for" /\ i' = i + 1
    /\ FreshStep
    /\ UNCHANGED <<inputs, logs>>

\* ---------------------------------------------------------------- run_step
\* files_done = match_patterns_in_dirs(volume_dirs, step.match_done), and the
\* skip decision that follows it.
MatchDone ==
    /\ pc = "match_done"
    /\ \/ \E fdone \in MatchResults("done") :
            /\ step_matches' = step_matches + 1
            /\ files_done' = fdone
            /\ UNCHANGED <<containers, running, step_calls, step_markers,
                           step_errors, files_in, rcLocals>>
            /\ IF ShouldSkip(fdone)
                 THEN /\ step_result' = {StepResult(steps[i], {}, {}, {}, TimingStartOnly,
                                                    fdone, NoFiles, NoFiles, NoFiles, TRUE)}
                      /\ pc' = "append"
                 ELSE /\ step_result' = step_result
                      /\ pc' = "match_in"
       \/ \* the file matcher raises: nothing catches it
          Raise
    /\ UNCHANGED <<inputs, i, step_results, result_steps, logs>>

\* files_in = match_patterns_in_dirs(volume_dirs, step.match_in)
MatchIn ==
    /\ pc = "match_in"
    /\ \/ \E fin \in MatchResults("in") :
            /\ step_matches' = step_matches + 1
            /\ files_in' = fin
            /\ pc' = "while"
            /\ UNCHANGED <<containers, running, step_calls, step_markers,
                           step_errors, files_done, rcLocals, step_result>>
       \/ Raise
    /\ UNCHANGED <<inputs, i, step_results, result_steps, logs>>

\* ----------------------------------------------------------- run_container
\* Mutant of Retryable: every APIError is retried, client errors included.
Retryable_ClientToo(kind) == kind \in {"client", "server", "os"}

\* Mutant of Retryable: every exception but a client error is retried, a
\* DockerException that is no APIError included.
Retryable_DockerToo(kind) == kind \in {"server", "docker", "os"}

\* Which exception classes the except clauses retry: a server-side APIError
\* (retried_exception = api_error) and an unexpected non-Docker exception.
Retryable(kind) == kind \in {"server", "os"}

\* Mutant of Retried: the first retried exception is kept, later ones dropped.
Retried_KeepFirst(old, e) == IF old = {} THEN {e} ELSE old

\* retried_exception = api_error / retried_exception = unexpected_exception:
\* the exception of this attempt replaces the one recorded before.
Retried(old, e) == {e}

\* The history of failed attempts after one more, of class kind: an earlier
\* entry is there only because its exception was retried.
Recorded(errors, kind) == [k \in DOMAIN errors |-> "retried"] \o <<kind>>

\* return (container, exit_code, exception), and run_step's test of it
\* (if exception is not None).  The other locals of run_container are dead.
Return(c, code, exc) ==
    /\ container' = c
    /\ exit_code' = {code}
    /\ exception' = exc
    /\ chunks' = 0
    /\ retried_exception' = {}
    /\ pc' = IF exc # {} THEN "error_log" ELSE "match_out"

\* An exception of class kind raised inside the try block of an attempt:
\* the except clause either returns (None, -1, e) or records e and falls
\* through to the retry bookkeeping.  Nothing on this path removes a
\* container the attempt has created.  (The locals container and exit_code
\* are assigned again before they are next read: they are cleared here.)
Except(kind) ==
    LET e == [kind |-> kind, attempt |-> attempts + 1] IN
    /\ step_errors' = Recorded(step_errors, kind)
    /\ IF Retryable(kind)
         THEN /\ retried_exception' = Retried(retried_exception, e)
              /\ pc' = "marker"
              /\ container' = {}
              /\ exit_code' = {}
              /\ chunks' = 0
              /\ UNCHANGED exception
         ELSE Return({}, -1, {e})

\* No exception: the attempt goes on to position next.
Proceed(next) ==
    /\ pc' = next
    /\ UNCHANGED <<retried_exception, container, exit_code, exception, chunks,
                   step_errors>>

\* Mutant of AttemptsLeft: the loop test lets one more attempt through.
AttemptsLeft_OneMore(a, m) == a <= m

\* attempts < max_attempts, the test of the retry loop
AttemptsLeft(a, m) == a < m

\* while attempts < max_attempts: ... ; return (None, -1, retried_exception)
WhileAttempts ==
    /\ pc = "while"
    /\ IF AttemptsLeft(attempts, max_attempts)
         THEN Proceed("run")
         ELSE /\ Return({}, -1, retried_exception)
              /\ UNCHANGED step_errors
    /\ UNCHANGED <<inputs, i, step_results, result_steps, logs, containers, running,
                   counters, stepLocals, attempts, step_result>>

\* client = docker.from_env(...); container = client.containers.run(..., detach=True)
ContainersRun ==
    /\ pc = "run"
    /\ step_calls' = step_calls + 1
    /\ \/ /\ container' = {attempts + 1}
          /\ containers' = containers \cup {attempts + 1}
          /\ running' = running \cup {attempts + 1}
          /\ pc' = "logs"
          /\ UNCHANGED <<retried_exception, exit_code, exception, chunks, step_errors>>
       \/ \E kind \in ErrorKinds :
            /\ Except(kind)
            /\ UNCHANGED <<containers, running>>
    /\ UNCHANGED <<inputs, i, step_results, result_steps, logs, step_matches,
                   step_markers, stepLocals, attempts, step_result>>

\* step_log_stream = container.logs(stdout=True, stderr=True, stream=True)
ContainerLogs ==
    /\ pc = "logs"
    /\ \/ Proceed("open")
       \/ \E kind \in ErrorKinds : Except(kind)
    /\ UNCHANGED <<inputs, i, step_results, result_steps, logs, containers, running,
                   counters, stepLocals, attempts, step_result>>

\* with open(log_path, 'w') as f: truncates the log of the step
OpenLog ==
    /\ pc = "open"
    /\ \/ /\ logs' = [logs EXCEPT ![LogPath(steps[i])] = <<>>]
          /\ Proceed("stream")
       \/ /\ Except("os")
          /\ UNCHANGED logs
    /\ UNCHANGED <<inputs, i, step_results, result_steps, containers, running, counters,
                   stepLocals, attempts, step_result>>

\* for log_entry in step_log_stream: f.write(log_entry.decode("utf-8"))
\* One chunk arrives and is written, or the stream closes, or reading,
\* decoding or writing raises.
StreamLogs ==
    /\ pc = "stream"
    /\ \/ /\ chunks < MaxChunks
          /\ chunks' = chunks + 1
          /\ logs' = [logs EXCEPT ![LogPath(steps[i])] = Append(@, ChunkLine)]
          /\ UNCHANGED <<pc, retried_exception, container, exit_code, exception,
                         step_errors, running>>
       \/ \* the stream closes: the process of the container has ended
          /\ Proceed("wait")
          /\ running' = running \ container
          /\ UNCHANGED logs
       \/ \E kind \in ErrorKinds :
            /\ Except(kind)
            /\ UNCHANGED <<logs, running>>
    /\ UNCHANGED <<inputs, i, step_results, result_steps, containers, counters,
                   stepLocals, attempts, step_result>>

\* run_results = container.wait(); exit_code = run_results['StatusCode']
ContainerWait ==
    /\ pc = "wait"
    /\ \/ \E code \in ExitCodes :
            /\ exit_code' = {code}
            /\ pc' = "remove"
            /\ UNCHANGED <<retried_exception, container, exception, chunks, step_errors>>
       \/ \E kind \in ErrorKinds : Except(kind)
    /\ UNCHANGED <<inputs, i, step_results, result_steps, logs, containers,
                   running, counters, stepLocals, attempts, step_result>>

\* container.remove(); return (container, exit_code, None)
ContainerRemove ==
    /\ pc = "remove"
    /\ \/ /\ containers' = containers \ container
          /\ running' = running \ container
          /\ \E code \in exit_code : Return(container, code, {})
          /\ UNCHANGED step_errors
       \/ \E kind \in ErrorKinds :
            /\ Except(kind)
            /\ UNCHANGED <<containers, running>>
    /\ UNCHANGED <<inputs, i, step_results, result_steps, logs, counters,
                   stepLocals, attempts, step_result>>

\* attempts += 1; with open(log_path, 'a') as f: f.write(retry_log_message)
\* This runs outside the try block: an OSError here leaves run_container.
RetryMarker ==
    /\ pc = "marker"
    /\ \/ /\ attempts' = attempts + 1
          /\ logs' = [logs EXCEPT ![LogPath(steps[i])] = Append(@, MarkerLine(attempts + 1))]
          /\ step_markers' = step_markers + 1
          /\ pc' = "while"
          /\ UNCHANGED <<containers, running, step_calls, step_matches,
                         step_errors, stepLocals, retried_exception, container,
                         chunks, exit_code, exception, step_result>>
       \/ /\ Raise
          /\ UNCHANGED logs
    /\ UNCHANGED <<inputs, i, step_results, result_steps>>

\* ------------------------------------------------- run_step, after the loop
\* if exception is not None: append the error message to the log and return
\* StepResult(name, log_file, timing=Timing(start), exit_code)
ErrorLog ==
    /\ pc = "error_log"
    /\ \/ /\ logs' = [logs EXCEPT ![LogPath(steps[i])] = Append(@, ErrorLine)]
          /\ step_result' = {StepResult(steps[i], {}, exit_code, {LogPath(steps[i])},
                                        TimingStartOnly, NoFiles, NoFiles, NoFiles,
                                        NoFiles, FALSE)}
          /\ pc' = "append"
          /\ UNCHANGED <<containers, running, history, stepLocals, rcLocals>>
       \/ \* open(log_path, 'a') or the write raises: nothing catches it
          /\ Raise
          /\ UNCHANGED logs
    /\ UNCHANGED <<inputs, i, step_results, result_steps>>

\* files_out = match_patterns_in_dirs(volume_dirs, step.match_out)
\* files_summary = match_patterns_in_dirs(volume_dirs, step.match_summary)
\* return StepResult(name, image_id=container.image.id, exit_code, log_file,
\*                   files_done, files_in, files_out, files_summary, complete timing)
Completed ==
    /\ pc = "match_out"
    /\ \/ /\ step_matches' = step_matches + 2
          /\ \E fout \in MatchResults("out"), fsum \in MatchResults("summary") :
               step_result' = {StepResult(steps[i], {"image"}, exit_code,
                                          {LogPath(steps[i])}, TimingComplete,
                                          files_done, files_in, fout, fsum, FALSE)}
          /\ pc' = "append"
          /\ UNCHANGED <<containers, running, step_calls, step_markers,
                         step_errors, stepLocals, rcLocals>>
       \/ \* the match_out query, the match_summary query or the image lookup
          \* container.image raises: nothing catches it
          Raise
    /\ UNCHANGED <<inputs, i, step_results, result_steps, logs>>

Next ==
    \/ FinishPipeline
    \/ IgnoreStep
    \/ StartStep
    \/ MatchDone
    \/ MatchIn
    \/ WhileAttempts
    \/ ContainersRun
    \/ ContainerLogs
    \/ OpenLog
    \/ StreamLogs
    \/ ContainerWait
    \/ ContainerRemove
    \/ RetryMarker
    \/ ErrorLog
    \/ Completed
    \/ AppendResult

Spec == Init /\ [][Next]_vars

\* The same program when every engine call, log stream, file write and
\* file-match query returns: the interpreter then always takes the next step
\* of the one sequential thread of run_pipeline.
\* The runs start as in Init, without a filter or with the filter that
\* selects two of the step names.
TerminationInit ==
    /\ Init
    /\ step_names \in {{}, {{NameAB, NameA_B}}}

TerminationSpec == TerminationInit /\ [][Next]_vars /\ WF_vars(Next)

\* ------------------------------------------- run_pipeline: the amendment
\* amended = original._with_args_applied(args)._with_prototype_applied(),
\* one call at a time.
run == <<steps, step_names, force_rerun, max_attempts, i, step_results, result_steps, logs,
         containers, running, history, stepLocals, rcLocals, step_result>>

\* The pipelines and runtime args explored, in three families:
\* (1) any declared and runtime args, one step reading them
GivenArgs ==
    \E d \in ArgDicts, r \in ArgDicts :
        /\ original = Pipeline(d, {}, <<TemplateStep(<<"$", "a", "$", "b">>)>>)
        /\ args = r
\* (2) any template string in a step's string, list and mapping fields,
\*     with and without a prototype, under a few args
GivenTemplates ==
    \E t \in Templates,
       proto \in {{}, {[DefaultStep EXCEPT !.image = {<<"b", "$", "a">>}]}},
       d \in {<<>>, <<<<<<"a">>, <<"1">>>>>>, <<<<<<"a">>, <<>>>>>>},
       r \in {<<>>, <<<<<<"a">>, <<"9">>>>>>, <<<<<<"a", "a">>, <<"9">>>>>>} :
        /\ original = Pipeline(d, proto, <<TemplateStep(t), NamedStep(NameAB)>>)
        /\ args = r
\* (3) any of StructSteps with any of StructPrototypes, no args
GivenStructure ==
    \E s \in StructSteps, proto \in StructPrototypes :
        /\ original = Pipeline(<<>>, proto, <<s>>)
        /\ args = <<>>

AmendInit ==
    /\ GivenArgs \/ GivenTemplates \/ GivenStructure
    /\ amended = {}
    /\ pc = "given"
    /\ steps = <<>>
    /\ step_names = {}
    /\ force_rerun = FALSE
    /\ max_attempts = DefaultMaxAttempts
    /\ RunNotStarted

\* original._with_args_applied(args)
WithArgsApplied ==
    /\ pc = "given"
    /\ amended' = {Pipeline_with_args_applied(original, args)}
    /\ original' = Self_after_args_applied(original, args)
    /\ pc' = "args_applied"
    /\ UNCHANGED <<args, run>>

\* (...)._with_prototype_applied()
WithPrototypeApplied ==
    /\ pc = "args_applied"
    /\ amended' = {Pipeline_with_prototype_applied(p) : p \in amended}
    /\ pc' = "amended"
    /\ UNCHANGED <<given, run>>

AmendNext ==
    \/ WithArgsApplied
    \/ WithPrototypeApplied

AmendSpec == AmendInit /\ [][AmendNext]_vars

\* ------------------------------------------- run_container, called alone
\* run_container(step, log_path, client_kwargs, max_attempts) for one step
\* and any max_attempts from -1 to the default, up to its return.
MaxAttemptsValues == -1..DefaultMaxAttempts

RunContainerInit ==
    /\ steps = <<NameC>>
    /\ original = PipelineOf(steps)
    /\ args = <<>>
    /\ amended = {Amended(original, args)}
    /\ step_names = {}
    /\ force_rerun = FALSE
    /\ max_attempts \in MaxAttemptsValues
    /\ pc = "while"
    /\ RunNotStarted

RunContainerNext ==
    \/ WhileAttempts
    \/ ContainersRun
    \/ ContainerLogs
    \/ OpenLog
    \/ StreamLogs
    \/ ContainerWait
    \/ ContainerRemove
    \/ RetryMarker

RunContainerSpec == RunContainerInit /\ [][RunContainerNext]_vars

\* ================================================================== claims
Last(seq) == seq[Len(seq)]
\* An exit code that is set and not zero (the -1 sentinel included).
NonZero(code) == \E c \in code : c # 0
\* The number of retry-marker lines in a log.
MarkerCount(log) == Cardinality({k \in DOMAIN log : log[k].kind = "marker"})
\* The log of the step the run is at.
StepLog == logs[LogPath(steps[i])]
\* Positions inside a call of run_step (the step at i is being attempted).
InStep == pc \notin {"for", "returned"}

\* C1: once a StepResult with a nonzero exit_code (the -1 sentinel included)
\* has been appended, no further StepResult is appended and the engine is not
\* invoked again; a failing result is therefore always the last one.
C1_StopAfterNonzeroExit ==
    /\ [](\A k \in 1..Len(step_results) :
            NonZero(step_results[k].exit_code) => k = Len(step_results))
    /\ [][(step_results # <<>> /\ NonZero(Last(step_results).exit_code))
            => (step_results' = step_results /\ step_calls' = step_calls
                /\ pc' = "returned")]_vars

\* C1 witness: a 3-step pipeline, no filter, whose step 2 ended with the -1
\* sentinel: the run returned with two results.
C1_Witness ==
    /\ pc = "returned"
    /\ Len(steps) = 3
    /\ step_names = {}
    /\ Len(step_results) = 2
    /\ step_results[2].exit_code = {-1}
    /\ result_steps = <<1, 2>>

\* C2: when match_done matched at least one file and force_rerun is false,
\* run_step returns a StepResult with skipped = true, the matched files and
\* a Timing with only start, and the engine was not invoked for the step.
C2_SkipWhenDone ==
    (InStep /\ pc # "match_done" /\ files_done # NoFiles /\ ~force_rerun) =>
        /\ pc = "append"
        /\ step_calls = 0
        /\ step_result # {}
        /\ \A r \in step_result :
            /\ r.skipped
            /\ r.files_done = files_done
            /\ r.timing = TimingStartOnly
            /\ r.name = steps[i]

\* C2 witness: run_step has returned for a step with done files, no force.
C2_Witness ==
    /\ pc = "append"
    /\ files_done # NoFiles
    /\ ~force_rerun
    /\ \E r \in step_result : r.skipped

\* C3 (as claimed): create-and-start raised a retried error on attempt 1 and a
\* server error on attempt 2 and attempt 3 succeeded with exit code 0: the StepResult has
\* skipped = false and exit_code = 0 and the log of the step holds exactly
\* two retry-marker lines when the step finishes.
C3_TwoMarkersInLog ==
    (pc = "append" /\ step_errors = <<"retried", "server">> /\ containers = {}
       /\ exception = {} /\ exit_code = {0}) =>
        /\ \A r \in step_result : ~r.skipped /\ r.exit_code = {0}
        /\ MarkerCount(StepLog) = 2

\* C4: a client error ends run_container on the attempt where it occurs:
\* (None, -1, the error) is returned, the engine has been invoked once per
\* attempt up to that one and not again, no retry marker was written for that
\* attempt, and the StepResult of the step has exit_code = -1.
C4_ClientErrorNotRetried ==
    \A e \in exception : e.kind = "client" =>
        /\ pc \in {"error_log", "append", "raised"}
        /\ container = {}
        /\ exit_code = {-1}
        /\ attempts = e.attempt - 1
        /\ step_calls = e.attempt
        /\ step_markers = e.attempt - 1
        /\ Last(step_errors) = "client"
        /\ pc = "append" =>
             /\ step_result # {}
             /\ \A r \in step_result : r.exit_code = {-1} /\ ~r.skipped

\* C4 witness: a client error on the second attempt, after a retried error,
\* and run_step has returned.
C4_Witness ==
    /\ pc = "append"
    /\ \E e \in exception : e.kind = "client" /\ e.attempt = 2
    /\ step_markers = 1

\* C5 (as claimed): at the start of every attempt and when run_container has
\* returned, no container created by the step is left unremoved.
C5_ContainersRemoved ==
    pc \in {"while", "run", "error_log", "match_out"} => containers = {}

\* C6 (as claimed): no failure inside a step escapes run_pipeline.
C6_NothingEscapes == pc # "raised"

\* C7: skipped = true implies files_done nonempty and exit_code unset, so a
\* skipped step does not stop the run: the loop goes on to the next step.
C7_SkippedShape ==
    /\ \A k \in 1..Len(step_results) :
         step_results[k].skipped =>
            /\ step_results[k].files_done # NoFiles
            /\ step_results[k].exit_code = {}
    /\ \A r \in step_result :
         r.skipped => r.files_done # NoFiles /\ r.exit_code = {}
    /\ (step_results # <<>> /\ Last(step_results).skipped /\ ~InStep) =>
          \/ pc = "for" /\ i > Last(result_steps)
          \/ pc = "returned" /\ i > Len(steps)

\* C7 witness: the first step was skipped and the second is being attempted.
C7_Witness ==
    /\ Len(step_results) = 1
    /\ step_results[1].skipped
    /\ pc = "match_in"
    /\ i = 2

C9_ResultsFollowSteps ==
    /\ Len(step_results) = Len(result_steps)
    /\ Len(step_results) <= Len(steps)
    /\ \A k \in 1..Len(result_steps) :
         /\ result_steps[k] \in 1..Len(steps)
         /\ step_results[k].name = steps[result_steps[k]]
         /\ k > 1 => result_steps[k - 1] < result_steps[k]
    /\ pc = "returned" =>
         \A j \in 1..Len(steps) :
            (\A k \in 1..Len(result_steps) : result_steps[k] # j) =>
               \/ \E f \in step_names : steps[j] \notin f
               \/ \E k \in 1..Len(result_steps) :
                    result_steps[k] < j /\ NonZero(step_results[k].exit_code)

\* C9 witness: of three steps the first was filtered out, the second failed
\* and the third was never reached.
C9_Witness ==
    /\ pc = "returned"
    /\ Len(steps) = 3
    /\ result_steps = <<2>>
    /\ NonZero(step_results[1].exit_code)

\* C10 (as claimed): whenever a filter is supplied, the empty list included,
\* a step whose name is absent from it gets no StepResult and neither the
\* file matcher nor the engine is invoked for it.
C10_AbsentNamesOmitted ==
    \A f \in step_names :
        /\ \A k \in 1..Len(result_steps) : steps[result_steps[k]] \in f
        /\ (InStep /\ steps[i] \notin f) => (step_calls = 0 /\ step_matches = 0)

\* C11: when every attempt fails with a retryable error (server-side or
\* unclassified), the engine is invoked exactly max_attempts times and
\* run_container returns (no handle, -1, the error of the last attempt).
C11_ExhaustedReturnsLastError ==
    (Len(step_errors) = DefaultMaxAttempts
       /\ Last(step_errors) \in {"server", "os"}) =>
        /\ pc \in {"marker", "while", "error_log", "append", "raised"}
        /\ step_calls = DefaultMaxAttempts
        /\ pc \in {"error_log", "append"} =>
             /\ container = {}
             /\ exit_code = {-1}
             /\ exception = {[kind |-> Last(step_errors),
                              attempt |-> DefaultMaxAttempts]}

\* C11 witness: three retried errors, the last one an unexpected non-Docker
\* exception, and run_container has returned.
C11_Witness ==
    /\ pc = "error_log"
    /\ step_errors = <<"retried", "retried", "os">>
    /\ attempts = DefaultMaxAttempts

\* C12 (as claimed): when an attempted, non-skipped step finishes, its log
\* holds nothing written before the step started, and it holds every
\* retry-marker line the step wrote and, after an error, the error text last.
C12_LogFreshThenAppended ==
    (pc = "append" /\ \E r \in step_result : ~r.skipped) =>
        /\ \A k \in DOMAIN StepLog : StepLog[k] # OldLine
        /\ MarkerCount(StepLog) = step_markers
        /\ exception # {} => (StepLog # <<>> /\ Last(StepLog) = ErrorLine)

\* C13 (as claimed): at every moment at most one container started by the
\* run is running, across the retry attempts of a step as well, and a step
\* is only started when no result is pending from the step before it.
C13_OneContainerAtATime ==
    /\ Cardinality(running) <= 1
    /\ pc = "match_done" => (step_result = {} /\ running = {})

\* C14: _combine_args returns a mapping with exactly the declared keys in
\* declared order, each mapped to the runtime value when the runtime args
\* have that key and to the declared default otherwise; keys that only the
\* runtime args have never appear.
C14_CombinedArgsAreDeclaredKeys ==
    pc \in {"args_applied", "amended"} =>
        \A p \in amended :
            /\ Len(p.args) = Len(original.args)
            /\ \A k \in DOMAIN p.args :
                 /\ p.args[k][1] = original.args[k][1]
                 /\ \/ \E j \in DOMAIN args :
                          args[j][1] = p.args[k][1] /\ p.args[k][2] = args[j][2]
                    \/ /\ \A j \in DOMAIN args : args[j][1] # p.args[k][1]
                       /\ p.args[k][2] = original.args[k][2]

\* Declared {a: 1, aa: 1} with runtime {a: 9, b: 9} gives {a: 9, aa: 1}.
C14_Witness ==
    /\ pc = "args_applied"
    /\ original.args = <<<<<<"a">>, <<"1">>>>, <<<<"a", "a">>, <<"1">>>>>>
    /\ args = <<<<<<"a">>, <<"9">>>>, <<<<"b">>, <<"9">>>>>>
    /\ \A p \in amended :
          p.args = <<<<<<"a">>, <<"9">>>>, <<<<"a", "a">>, <<"1">>>>>>

\* C15: template resolution is idempotent: applying the combined args (whose
\* values hold no placeholder) to the steps they were already applied to
\* changes nothing.
C15_ApplyArgsIdempotent ==
    pc = "args_applied" =>
        \A p \in amended :
            /\ \A k \in DOMAIN p.steps :
                  StepEq(Step_with_args_applied(p.steps[k], p.args), p.steps[k])
            /\ \A t \in p.prototype :
                  StepEq(Step_with_args_applied(t, p.args), t)

\* C16: every field a step sets (gpus false, an empty command list, an empty
\* string, user 0, and each entry of its volumes and environment included)
\* has the step's value after the prototype is applied.
C16_SetFieldsPreserved ==
    [][WithPrototypeApplied =>
        \A p \in amended : \A q \in amended' : \A k \in DOMAIN p.steps :
            LET s == p.steps[k]
                m == q.steps[k]
            IN  /\ s.name # {} => m.name = s.name
                /\ s.image # {} => m.image = s.image
                /\ m.command = s.command
                /\ s.gpus # {} => m.gpus = s.gpus
                /\ s.user # {} => m.user = s.user
                /\ \A j \in DOMAIN s.volumes : s.volumes[j] \in {m.volumes[x] : x \in DOMAIN m.volumes}
                /\ \A j \in DOMAIN s.environment :
                      s.environment[j] \in {m.environment[x] : x \in DOMAIN m.environment}]_vars

\* C17: a pipeline with no declared args and no prototype, amended with no
\* runtime args, has steps equal to the original's field by field.
C17_AmendWithNothingIsIdentity ==
    (pc = "amended" /\ original.args = <<>> /\ original.prototype = {} /\ args = <<>>) =>
        \A p \in amended :
            /\ Len(p.steps) = Len(original.steps)
            /\ \A k \in DOMAIN p.steps : StepEq(p.steps[k], original.steps[k])

C19_DockerErrorNotRetried ==
    \A e \in exception : e.kind = "docker" =>
        /\ pc \in {"error_log", "append"}
        /\ container = {}
        /\ exit_code = {-1}
        /\ attempts = e.attempt - 1
        /\ step_calls = e.attempt
        /\ step_markers = e.attempt - 1
        /\ MarkerCount(StepLog) <= e.attempt - 1
        /\ Last(step_errors) = "docker"

\* C19 witness: a DockerException on the second attempt, after a retried
\* error, and run_container has returned.
C19_Witness ==
    /\ pc = "error_log"
    /\ \E e \in exception : e.kind = "docker" /\ e.attempt = 2
    /\ step_errors = <<"retried", "docker">>

\* C20 (as claimed): a server error and an unexpected non-Docker exception are
\* retried: the failed attempt is counted, the marker line with the number of
\* attempts failed so far is appended to the step's log, and another attempt
\* follows while that number is below max_attempts.
C20_RetriedWithMarker ==
    [][/\ (Len(step_errors') = Len(step_errors) + 1 /\ Last(step_errors') \in {"server", "os"})
            => (pc' = "marker" /\ attempts' = attempts)
       /\ pc = "marker"
            => /\ attempts' = attempts + 1
               /\ logs'[LogPath(steps[i])]
                    = Append(logs[LogPath(steps[i])], MarkerLine(attempts + 1))
               /\ pc' = "while"
       /\ (pc = "while" /\ attempts < DefaultMaxAttempts) => pc' = "run"]_vars

\* C21 (as claimed): whenever run_container has returned an error, run_step
\* appends exactly one error line to the step's log and returns a StepResult
\* with exit code -1, the log path, a Timing with only start set,
\* skipped = false, no image_id and all four file maps empty.
C21_ErrorResult ==
    [][pc = "error_log" =>
        /\ logs' = [logs EXCEPT ![LogPath(steps[i])] = Append(@, ErrorLine)]
        /\ pc' = "append"
        /\ step_result' = {StepResult(steps[i], {}, {-1}, {LogPath(steps[i])},
                                      TimingStartOnly, NoFiles, NoFiles, NoFiles,
                                      NoFiles, FALSE)}]_vars

\* C22 (as claimed): whenever run_container has returned without an error,
\* run_step queries match_out and match_summary and returns a StepResult with
\* the image id, the container's exit code, the log path, the four file maps
\* and a complete Timing; and a nonzero exit code in it stops the pipeline.
C22_SuccessResult ==
    [][/\ pc = "match_out" =>
            /\ pc' = "append"
            /\ step_matches' = step_matches + 2
            /\ \E r \in step_result' :
                 /\ r.name = steps[i]
                 /\ r.image_id # {}
                 /\ r.exit_code = exit_code /\ exit_code # {} /\ exit_code \subseteq ExitCodes
                 /\ r.log_file = {LogPath(steps[i])}
                 /\ r.timing = TimingComplete
                 /\ r.files_done = files_done
                 /\ r.files_in = files_in
                 /\ r.files_out \in MatchResults("out")
                 /\ r.files_summary \in MatchResults("summary")
                 /\ ~r.skipped
       /\ (pc = "append" /\ \E r \in step_result : NonZero(r.exit_code))
            => pc' = "returned"]_vars

\* C23 (as claimed): with force_rerun set, a step whose match_done patterns
\* match files is run anyway: it goes on to the run loop, the engine is
\* invoked for it, and when the run loop returns without error its StepResult
\* has skipped = false and the matched files_done.
C23_ForcedRerunRuns ==
    [][force_rerun =>
        /\ (pc = "match_done" /\ pc' # "raised") =>
               (pc' = "match_in" /\ step_result' = {})
        /\ (pc = "match_in" /\ files_done # NoFiles) => pc' = "while"
        /\ (pc = "while" /\ attempts = 0) => pc' = "run"
        /\ pc = "run" => step_calls' = step_calls + 1
        /\ (pc = "match_out" /\ files_done # NoFiles /\ pc' = "append") =>
               \A r \in step_result' : ~r.skipped /\ r.files_done = files_done]_vars

\* C24: the amended steps are, in the original order, each original step
\* resolved with the effective args and then merged with the prototype
\* resolved with the effective args; a step string that resolves to the empty
\* string takes the resolved prototype's value; version and description are
\* kept and the amended args are the effective args.
C24_ResolveThenMerge ==
    pc = "amended" =>
        \A p \in amended :
            LET effective == combine_args(original.args, args)
                resolved == {Step_with_args_applied(t, effective) : t \in original.prototype}
            IN  /\ p.version = original.version
                /\ p.description = original.description
                /\ p.args = effective
                /\ p.prototype = resolved
                /\ Len(p.steps) = Len(original.steps)
                /\ \A k \in DOMAIN p.steps :
                     /\ p.steps[k] = Step_with_prototype_applied(
                                         Step_with_args_applied(original.steps[k], effective),
                                         resolved)
                     /\ \A t \in resolved :
                          apply_args_str(original.steps[k].image, effective) = {<<>>}
                              => p.steps[k].image = t.image

\* C24 witness: the step's image "$a" resolves to the empty string under the
\* declared default and the amended step has the prototype's "b$a" resolved.
C24_Witness ==
    /\ pc = "amended"
    /\ original.steps[1].image = {<<"$", "a">>}
    /\ original.args = <<<<<<"a">>, <<>>>>>>
    /\ args = <<>>
    /\ \A t \in original.prototype : t.image = {<<"b", "$", "a">>}
    /\ \E p \in amended : p.steps[1].image = {<<"b">>}

\* C25: merging a step with a given prototype gives volumes (and likewise
\* environment) whose keys are the union of the prototype's and the step's
\* keys, each key of the step with the step's entry and each key of the
\* prototype alone with the prototype's entry; with no prototype the merge
\* returns the step unchanged.
C25_MergedMappings ==
    [][WithPrototypeApplied =>
        \A p \in amended : \A q \in amended' : \A k \in DOMAIN p.steps :
            LET s == p.steps[k]
                m == q.steps[k]
                Merged(mv, sv, tv) ==
                    /\ {mv[x][1] : x \in DOMAIN mv}
                          = {sv[x][1] : x \in DOMAIN sv} \cup {tv[x][1] : x \in DOMAIN tv}
                    /\ \A x, y \in DOMAIN mv : mv[x][1] = mv[y][1] => x = y
                    /\ \A x \in DOMAIN sv : \E y \in DOMAIN mv : mv[y] = sv[x]
                    /\ \A x \in DOMAIN tv :
                          (\A y \in DOMAIN sv : sv[y][1] # tv[x][1])
                              => \E y \in DOMAIN mv : mv[y] = tv[x]
            IN  /\ p.prototype = {} => m = s
                /\ \A t \in p.prototype :
                     /\ Merged(m.volumes, s.volumes, t.volumes)
                     /\ Merged(m.environment, s.environment, t.environment)]_vars

\* C25 witness: the step's volume a wins over the prototype's volume a and
\* the prototype's volume b is kept.
C25_Witness ==
    /\ pc = "amended"
    /\ original.steps[1].volumes = <<<<<<"a">>, <<"a">>>>>>
    /\ \E t \in original.prototype :
          t.volumes = <<<<<<"a">>, <<"b">>>>, <<<<"b">>, <<"b">>>>>>
    /\ \E p \in amended :
          DictEq(p.steps[1].volumes, <<<<<<"a">>, <<"a">>>>, <<<<"b">>, <<"b">>>>>>)

\* C26 (as claimed): two attempted steps with distinct names never write to
\* the same log path: the StepResults of one run that have a log file and
\* distinct names have distinct log files, and while a step is attempted no
\* earlier attempted step of another name has its log path.
C26_OwnLogFile ==
    /\ \A a, b \in DOMAIN step_results :
          (/\ step_results[a].name # step_results[b].name
           /\ step_results[a].log_file # {}
           /\ step_results[b].log_file # {})
              => step_results[a].log_file # step_results[b].log_file
    /\ pc \in {"open", "stream", "marker", "error_log"} =>
          \A a \in DOMAIN step_results :
              (step_results[a].name # steps[i] /\ step_results[a].log_file # {})
                  => step_results[a].log_file # {LogPath(steps[i])}

\* C27 (as claimed): whatever max_attempts is, run_container returns either
\* (a handle, an exit code, no error) or (no handle, -1, an error): at its
\* return the error is absent exactly when a handle is returned.
C27_HandleOrError ==
    pc \in {"error_log", "match_out"} =>
        \/ container # {} /\ exit_code # {} /\ exit_code \subseteq ExitCodes /\ exception = {}
        \/ container = {} /\ exit_code = {-1} /\ exception # {}

\* C28: when every call returns, run_pipeline terminates (it returns its
\* ExecutionRecord or an exception leaves it), and on the way it makes at
\* most max_attempts create-and-start invocations for each of the n amended
\* steps: the count of the current step never exceeds max_attempts, it grows
\* only by one invocation of containers.run at a time, it starts again from
\* zero only when the loop leaves that step, and the loop visits the steps
\* 1..n in order, each at most once.  Hence at most n * max_attempts
\* invocations in all.
C28_TerminatesWithinBudget ==
    /\ [](/\ step_calls <= max_attempts
          /\ i \in 1..(Len(steps) + 1)
          /\ (step_calls > 0 => i <= Len(steps)))
    /\ [][/\ i' \in {i, i + 1}
          /\ (step_calls' > step_calls =>
                 pc = "run" /\ step_calls' = step_calls + 1 /\ i' = i)
          /\ (step_calls' < step_calls =>
                 step_calls' = 0 /\ (i' = i + 1 \/ pc' \in {"returned", "raised"}))
          /\ (pc \in {"returned", "raised"} => UNCHANGED vars)]_vars
    /\ <>(pc \in {"returned", "raised"})

\* The last of several steps has used its whole budget of invocations, every
\* step before it has a result, and run_container is about to return.
C28_Witness ==
    /\ pc = "while"
    /\ Len(steps) > 1
    /\ i = Len(steps)
    /\ Len(step_results) = i - 1
    /\ attempts = max_attempts
    /\ step_calls = max_attempts

\* The two spellings of a placeholder for the argument named k.
Placeholders(k) == {<<"$">> \o k, <<"$", "{">> \o k \o <<"}">>}

\* The string t ends at position n: a placeholder of ph's length cannot be
\* continued by the character after it.
NameEndsAt(t, ph, n) ==
    \/ ph[2] = "{"
    \/ n = Len(t)
    \/ t[n + 1] \notin IdChars

\* Every placeholder for k that is the first or the last thing with a dollar
\* sign in t is in res where it is in t, with the plain text around it.
KeptVerbatim(t, res, k) ==
    \A ph \in Placeholders(k) : \A n \in 0..Len(t) :
        LET m == n + Len(ph) IN
        (m <= Len(t) /\ SubSeq(t, n + 1, m) = ph /\ NameEndsAt(t, ph, m)) =>
            /\ (\A j \in 1..n : t[j] # "$") =>
                  (Len(res) >= m /\ SubSeq(res, 1, m) = SubSeq(t, 1, m))
            /\ (\A j \in (m + 1)..Len(t) : t[j] # "$") =>
                  (/\ Len(res) >= Len(t) - n
                   /\ SubSeq(res, Len(res) - (Len(t) - n) + 1, Len(res))
                        = SubSeq(t, n + 1, Len(t)))

\* KeptVerbatim for every string of a step before (s) and after (r) the
\* amendment: the image, the command and the volumes.
KeptInStep(s, r, k) ==
    /\ \A t \in s.image : \E res \in r.image : KeptVerbatim(t, res, k)
    /\ Len(r.command) >= Len(s.command)
    /\ \A c \in DOMAIN s.command : KeptVerbatim(s.command[c], r.command[c], k)
    /\ \A e \in DOMAIN s.volumes : \E f \in DOMAIN r.volumes :
          /\ KeptVerbatim(s.volumes[e][1], r.volumes[f][1], k)
          /\ KeptVerbatim(s.volumes[e][2], r.volumes[f][2], k)

\* The runtime args without the entries whose key the pipeline p does not
\* declare.
DeclaredOnly(p, runtime) == SelectSeq(runtime, LAMBDA e : HasKey(p.args, e[1]))

\* C29: a runtime argument the pipeline does not declare is never
\* substituted: the amended args have no key for it, its placeholders stay
\* as written in the amended prototype and in every amended step, and the
\* amended pipeline is the one the run would get without such arguments.
C29_UndeclaredNeverSubstituted ==
    pc \in {"args_applied", "amended"} =>
        \A p \in amended :
            /\ \A a \in DOMAIN args :
                 ~HasKey(original.args, args[a][1]) =>
                    /\ ~HasKey(p.args, args[a][1])
                    /\ Len(p.steps) = Len(original.steps)
                    /\ \A j \in DOMAIN original.steps :
                          KeptInStep(original.steps[j], p.steps[j], args[a][1])
                    /\ \A t \in original.prototype : \E q \in p.prototype :
                          KeptInStep(t, q, args[a][1])
            /\ p = IF pc = "args_applied"
                     THEN Pipeline_with_args_applied(original, DeclaredOnly(original, args))
                     ELSE Amended(original, DeclaredOnly(original, args))

\* Declared {a: 1} with runtime {aa: 9}: the step's "$aa" is still "$aa"
\* after the amendment.
C29_Witness ==
    /\ pc = "amended"
    /\ Keys(original.args) = <<<<"a">>>>
    /\ Keys(args) = <<<<"a", "a">>>>
    /\ original.steps[1].image = {<<"$", "a", "a">>}
    /\ \A p \in amended :
          /\ p.steps[1].image = {<<"$", "a", "a">>}
          /\ p.steps[1].command = <<<<"$", "a", "a">>>>
          /\ p.args = original.args
====
